---- MODULE Spec2Model ----
(***************************************************************************)
(* Model of the markdown preprocessor, the markdown parser, the request    *)
(* helper and the localStorage helpers of FlowiseChatEmbed                  *)
(* (src/src/components/bubbles/LoadingBubble.tsx).                          *)
(*                                                                         *)
(* Strings are sequences of one-character strings, so that split, trim,    *)
(* the separator regular expression and join are computed character by     *)
(* character as the code computes them.                                    *)
(***************************************************************************)
EXTENDS Integers, Sequences, FiniteSets, TLC

VARIABLES
    \* ---- preprocessMarkdown (one call frame, run line by line) ----
    text,               \* the argument of the current call
    input,              \* the text given to the first call
    originalLines,      \* text.split('\n')
    fixedLines,         \* the lines pushed so far
    i,                  \* the loop index (0-based, as in the source)
    firstTableRowSeen,  \* the one-shot flag
    mdpc,               \* "call" | "loop" | "done" | "threw"
    pass,               \* 1: first call, 2: call on the first call's output
    out1,               \* the first call's return value
    result,             \* the current call's return value
    sepCols,            \* cols last computed at the separator site in this call: <<>> or <<cols>>
    synCols,            \* cols last computed at the synthesis site in this call: <<>> or <<cols>>
    \* ---- localStorage helpers ----
    storage,            \* localStorage: key -> stored item
    storageFails,       \* whether storage calls can throw in this environment
    stLast,             \* the last call: its name, arguments and outcome
    stRet,              \* what the last getLocalStorageChatflow call returned
    \* ---- sendRequest (one call, from await to await) ----
    rqParams,           \* the argument
    rqPc,               \* "start" | "hook" | "fetch" | "decode" | "check" | "done"
    rqResponse,         \* the Response fetch resolved to
    rqData,             \* the decoded body
    rqPath,             \* how the call went: which step failed, if any
    rqResult,           \* the object the promise resolved to
    \* ---- MarkdownParser.parse (one call) ----
    mkCall,             \* how the parser was obtained
    mkInput,            \* the argument of parse
    mkPc,               \* "call" | "done"
    mkOut               \* the HTML returned

mdVars == <<text, input, originalLines, fixedLines, i, firstTableRowSeen, mdpc,
            pass, out1, result, sepCols, synCols>>

stVars == <<storage, storageFails, stLast, stRet>>

rqVars == <<rqParams, rqPc, rqResponse, rqData, rqPath, rqResult>>

mkVars == <<mkCall, mkInput, mkPc, mkOut>>

vars == <<mdVars, stVars, rqVars, mkVars>>

----------------------------------------------------------------------------
(* Bounds *)

\* longest input text drawn character by character
MaxLen == 5

\* most lines of an input text assembled from LinePool
MaxLines == 3

\* longest chatHistory array given to setLocalStorageChatflow
MaxHist == 40

\* most fragments of a markdown source given to parse
MaxFrags == 2

\* most nodes of an HTML string markdown-it returns
MaxNodes == 1

----------------------------------------------------------------------------
(* Characters and strings *)

NL == "\n"

\* the characters input texts are drawn from
Alphabet == {"|", "-", ":", " ", "a", NL}

\* what String.prototype.trim removes and what \s matches
Whitespace == {" ", "\t", "\r", NL}

RECURSIVE StringsUpTo(_)
StringsUpTo(n) ==
    IF n = 0 THEN {<<>>}
    ELSE LET shorter == StringsUpTo(n - 1)
         IN  shorter \cup {Append(s, c) : s \in {t \in shorter : Len(t) = n - 1}, c \in Alphabet}

\* s.includes(c)
Includes(s, c) == \E k \in 1..Len(s) : s[k] = c

\* s.split(c): the segments between the occurrences of c, empty ones kept
RECURSIVE SplitFrom(_, _, _, _)
SplitFrom(s, c, k, cur) ==
    IF k > Len(s) THEN <<cur>>
    ELSE IF s[k] = c THEN <<cur>> \o SplitFrom(s, c, k + 1, <<>>)
    ELSE SplitFrom(s, c, k + 1, Append(cur, s[k]))

Split(s, c) == SplitFrom(s, c, 1, <<>>)

\* s.trim()
RECURSIVE TrimStart(_)
TrimStart(s) ==
    IF s # <<>> /\ Head(s) \in Whitespace THEN TrimStart(Tail(s)) ELSE s

RECURSIVE TrimEnd(_)
TrimEnd(s) ==
    IF s # <<>> /\ s[Len(s)] \in Whitespace THEN TrimEnd(SubSeq(s, 1, Len(s) - 1)) ELSE s

Trim(s) == TrimEnd(TrimStart(s))

\* lines.join(sep)
RECURSIVE Join(_, _)
Join(lines, sep) ==
    IF lines = <<>> THEN <<>>
    ELSE IF Len(lines) = 1 THEN lines[1]
    ELSE lines[1] \o sep \o Join(Tail(lines), sep)

\* s.repeat(n) for n >= 0
RECURSIVE Repeat(_, _)
Repeat(s, n) == IF n <= 0 THEN <<>> ELSE s \o Repeat(s, n - 1)

\* text.split('\n').length
LineCount(s) == Len(Split(s, NL))

----------------------------------------------------------------------------
(* preprocessMarkdown: the per-line computations *)

\* line 68-72: the trimmed, non-empty cells, and whether the row is empty
CellContent(line) ==
    SelectSeq([k \in 1..Len(Split(line, "|")) |-> Trim(Split(line, "|")[k])],
              LAMBDA s : Len(s) > 0)

IsEmptyRow(line) ==
    \/ Len(CellContent(line)) = 0
    \/ \A k \in 1..Len(CellContent(line)) :
          CellContent(line)[k] = <<>> \/ CellContent(line)[k] = <<"-">>

\* line 67-76: the line is dropped
Skipped(line) == Includes(line, "|") /\ IsEmptyRow(line) /\ ~Includes(line, "-")

\* line 81: /^\s*\|[\s-:|]+\|\s*$/.test(line)
SeparatorClass == Whitespace \cup {"-", ":", "|"}

IsSeparator(line) ==
    \E p \in 1..Len(line) : \E q \in (p + 2)..Len(line) :
        /\ \A k \in 1..(p - 1) : line[k] \in Whitespace
        /\ line[p] = "|"
        /\ \A k \in (p + 1)..(q - 1) : line[k] \in SeparatorClass
        /\ line[q] = "|"
        /\ \A k \in (q + 1)..Len(line) : line[k] \in Whitespace

\* line 84: the column count of a separator row
SeparatorCols(line) ==
    LET cells == Split(line, "|")
    IN  Cardinality({k \in 1..Len(cells) :
                        Len(Trim(cells[k])) > 0 \/ Includes(cells[k], "-")})

\* a slip that counts the cells as the separator site recognises them
SynthCols_dashCells(line) ==
    LET cells == Split(line, "|")
    IN  Cardinality({k \in 1..Len(cells) : Includes(cells[k], "-")})

\* line 98: the column count of the first table row
SynthCols(line) ==
    LET cells == Split(line, "|")
    IN  Cardinality({k \in 1..Len(cells) : Len(Trim(cells[k])) > 0})

\* line 85 and 99: '| ' + '--- | '.repeat(cols - 1) + '--- |'
SeparatorRow(cols) ==
    <<"|", " ">> \o Repeat(<<"-", "-", "-", " ", "|", " ">>, cols - 1)
                 \o <<"-", "-", "-", " ", "|">>

\* line 80-82: the line reaches the separator site
AtSeparatorSite(line) ==
    Includes(line, "|") /\ Includes(line, "-") /\ IsSeparator(line)

\* line 93: the (possibly replaced) line is a table row
IsTableRow(line) ==
    /\ Trim(line) # <<>>
    /\ Head(Trim(line)) = "|"
    /\ Trim(line)[Len(Trim(line))] = "|"
    /\ ~Includes(line, "-")

\* a slip that forgets to look for a separator that is already there
NextLineWantsSeparator_noCheck(lines, idx) ==
    /\ idx + 2 <= Len(lines)
    /\ lines[idx + 2] # <<>>

\* line 95-97: a next source line exists, is not empty, and has no pipe with a dash
NextLineWantsSeparator(lines, idx) ==
    /\ idx + 2 <= Len(lines)
    /\ lines[idx + 2] # <<>>
    /\ ~(Includes(lines[idx + 2], "|") /\ Includes(lines[idx + 2], "-"))

\* a slip that never sets the one-shot flag
SeenAfter_never(seen, line) == seen

\* line 93-94: the flag after a line was pushed
SeenAfter(seen, line) == seen \/ IsTableRow(line)

----------------------------------------------------------------------------
(* localStorage helpers: values and their JSON size *)

\* line 319-320
MAX_HISTORY == 30
MAX_BYTES == 2000

ChatflowIds == {"flowA", "flowB"}

\* line 345: `${chatflowid}_EXTERNAL`
KeyOf(chatflowid) == chatflowid \o "_EXTERNAL"

Keys == {KeyOf(cf) : cf \in ChatflowIds}

\* An optional field is <<>> (absent) or <<value>>.  A record of the store has
\* the fields the helpers read and write.
RecordFields == {"chatId", "chatHistory", "lead"}

EmptyObj == [chatId |-> <<>>, chatHistory |-> <<>>, lead |-> <<>>]

\* the three fields line 329 destructures away
HeavyFields == {"agentReasoning", "sourceDocuments", "artifacts"}

\* UTF-8 length of a string; the names below stand for long strings
StrBytes(str) ==
    CASE str = "T900" -> 900
      [] str = "H3000" -> 3000
      [] str = "N1200" -> 1200
      [] OTHER -> Len(str)

RECURSIVE Digits(_)
Digits(n) == IF n < 10 THEN 1 ELSE 1 + Digits(n \div 10)


Commas(n) == IF n > 1 THEN n - 1 ELSE 0

\* "name":value of one field of a history entry, when the entry has it
MsgFieldBytes(msg, f) ==
    IF f \notin DOMAIN msg THEN 0
    ELSE Len(f) + 3 + (IF f = "timestamp" THEN Digits(msg[f]) ELSE StrBytes(msg[f]) + 2)

\* JSON.stringify of one history entry: {"timestamp":7,"text":"hi",...}
MsgBytes(msg) ==
    2 + Commas(Cardinality(DOMAIN msg))
      + MsgFieldBytes(msg, "timestamp") + MsgFieldBytes(msg, "text")
      + MsgFieldBytes(msg, "agentReasoning") + MsgFieldBytes(msg, "sourceDocuments")
      + MsgFieldBytes(msg, "artifacts")

RECURSIVE SumMsgBytes(_, _)
SumMsgBytes(h, n) == IF n = 0 THEN 0 ELSE MsgBytes(h[n]) + SumMsgBytes(h, n - 1)

\* JSON.stringify of an array of entries
HistoryBytes(h) == 2 + Commas(Len(h)) + SumMsgBytes(h, Len(h))

\* JSON.stringify of a lead object {"name":"..."}
LeadBytes(lead) == 2 + Len("name") + 3 + StrBytes(lead.name) + 2

\* line 335-336: new Blob([JSON.stringify(obj)]).size
ObjBytes(obj) ==
    2 + Commas(Cardinality({f \in RecordFields : obj[f] # <<>>}))
      + (IF obj.chatId # <<>> THEN Len("chatId") + 3 + StrBytes(obj.chatId[1]) + 2 ELSE 0)
      + (IF obj.chatHistory # <<>>
         THEN Len("chatHistory") + 3 + HistoryBytes(obj.chatHistory[1]) ELSE 0)
      + (IF obj.lead # <<>> THEN Len("lead") + 3 + LeadBytes(obj.lead[1]) ELSE 0)

\* a stored item: nothing (getItem returns null), a JSON text, or a text
\* JSON.parse rejects
NoItem == [kind |-> "none"]
Garbage == [kind |-> "garbage"]
JsonStringify(obj) == [kind |-> "json", obj |-> obj]

----------------------------------------------------------------------------
(* localStorage helpers: the arguments *)

\* chatId arguments; '' is falsy and is not merged in (line 323)
ChatIds == {"", "c1"}

Min(a, b) == IF a < b THEN a ELSE b

\* a chatHistory entry; entry k of a history carries timestamp k
Msg(k, pattern) ==
    CASE pattern = "plain" -> [timestamp |-> k, text |-> "hi"]
      [] pattern = "heavy" -> [timestamp |-> k, text |-> "hi", agentReasoning |-> "H3000",
                               sourceDocuments |-> "H3000", artifacts |-> "H3000"]
      [] pattern = "long" -> [timestamp |-> k, text |-> "T900"]

Hist(n, pattern) == [k \in 1..n |-> Msg(k, pattern)]

\* short and long arrays; entries with heavy fields; entries whose text alone
\* takes the record over the byte budget
Histories == {Hist(2, "heavy"), Hist(3, "long"), Hist(MaxHist, "heavy")}

\* lead objects (an object is truthy)
Leads == {[name |-> "Ann"], [name |-> "N1200"]}

SaveObjs ==
    {[chatId |-> <<>>, chatHistory |-> h, lead |-> l] :
        h \in {<<>>} \cup {<<x>> : x \in Histories},
        l \in {<<>>} \cup {<<x>> : x \in Leads}}

\* the storage calls that can throw (SecurityError, QuotaExceededError):
\* getItem, the try block's setItem, removeItem, the catch block's setItem
FaultSites == {"getItem", "setItem", "removeItem", "fallbackSetItem"}

\* the chatflows the calls are made for; where storage calls can throw, one
\* chatflow is enough to reach every failure path
FlowsInUse == IF storageFails THEN {"flowA"} ELSE ChatflowIds

\* the calls that throw during one call of a helper
FaultChoices(sites) == IF storageFails THEN SUBSET sites ELSE {{}}

----------------------------------------------------------------------------
(* localStorage helpers: the functions *)

\* a slip that keeps the oldest entries: slice(0, MAX_HISTORY)
TrimHistory_oldest(h) ==
    [k \in 1..Min(Len(h), MAX_HISTORY) |-> [f \in DOMAIN h[k] \ HeavyFields |-> h[k][f]]]

\* line 328-331: slice(-MAX_HISTORY).map(strip the heavy fields)
TrimHistory(h) ==
    LET n == Min(Len(h), MAX_HISTORY)
    IN  [k \in 1..n |-> [f \in DOMAIN h[Len(h) - n + k] \ HeavyFields |->
                            h[Len(h) - n + k][f]]]

\* line 322-333: the record that is measured and saved
Prepare(chatId, saveObj) ==
    [chatId |-> IF chatId # "" THEN <<chatId>> ELSE saveObj.chatId,
     chatHistory |-> IF saveObj.chatHistory # <<>>
                     THEN <<TrimHistory(saveObj.chatHistory[1])>>
                     ELSE <<>>,
     lead |-> saveObj.lead]

\* a slip that warns about the size and goes on to save
Oversized_never(byteSize) == FALSE

\* line 339: byteSize > MAX_BYTES
Oversized(byteSize) == byteSize > MAX_BYTES

\* line 348-349: { ...parsed, ...obj }
Merge(parsed, obj) ==
    [f \in RecordFields |-> IF obj[f] # <<>> THEN obj[f] ELSE parsed[f]]

\* the outcome of a call: the store it leaves, and whether an exception
\* escaped to the caller
Outcome(store, threw) == [store |-> store, threw |-> threw]

\* line 339-358, given obj and byteSize; faults: the storage calls that throw
\* during this call
SaveRecord(store, chatflowid, chatId, obj, byteSize, faults) ==
    LET key == KeyOf(chatflowid)
        chatDetails == store[key]
        tryThrows ==
            \/ "getItem" \in faults
            \/ chatDetails = Garbage
            \/ "setItem" \in faults
        written ==
            IF chatDetails # NoItem
            THEN JsonStringify(Merge(chatDetails.obj, obj))
            ELSE JsonStringify(obj)
        minimal == JsonStringify([EmptyObj EXCEPT !.chatId = <<chatId>>])
    IN  IF Oversized(byteSize) THEN Outcome(store, FALSE)
        ELSE IF ~tryThrows THEN Outcome([store EXCEPT ![key] = written], FALSE)
        ELSE IF "fallbackSetItem" \in faults THEN Outcome(store, TRUE)
        ELSE Outcome([store EXCEPT ![key] = minimal], FALSE)

\* line 318-359
setLocalStorageChatflow(store, chatflowid, chatId, saveObj, faults) ==
    SaveRecord(store, chatflowid, chatId, Prepare(chatId, saveObj),
               ObjBytes(Prepare(chatId, saveObj)), faults)

\* the arguments of the calls, each with the obj and the byteSize that
\* setLocalStorageChatflow computes from it at line 322-336
SaveArgs ==
    {[chatId |-> c, saveObj |-> o, obj |-> Prepare(c, o), byteSize |-> ObjBytes(Prepare(c, o))] :
        c \in ChatIds, o \in SaveObjs}

\* line 361-369; the return value, or an exception that escapes
getLocalStorageChatflow(store, chatflowid, faults) ==
    LET chatDetails == store[KeyOf(chatflowid)]
    IN  IF "getItem" \in faults THEN [threw |-> TRUE]
        ELSE IF chatDetails = NoItem THEN [threw |-> FALSE, value |-> EmptyObj]
        ELSE IF chatDetails = Garbage THEN [threw |-> FALSE, value |-> EmptyObj]
        ELSE [threw |-> FALSE, value |-> chatDetails.obj]

\* a slip that forgets the lead and removes the record
removeLocalStorageChatHistory_all(store, chatflowid, faults) ==
    Outcome([store EXCEPT ![KeyOf(chatflowid)] = NoItem], FALSE)

\* line 371-387
removeLocalStorageChatHistory(store, chatflowid, faults) ==
    LET key == KeyOf(chatflowid)
        chatDetails == store[key]
        removed == [store EXCEPT ![key] = NoItem]
    IN  IF "getItem" \in faults THEN Outcome(store, TRUE)
        ELSE IF chatDetails = NoItem THEN Outcome(store, FALSE)
        ELSE IF chatDetails = Garbage THEN Outcome(store, FALSE)
        ELSE IF "removeItem" \in faults THEN Outcome(store, FALSE)
        ELSE IF chatDetails.obj.lead # <<>>
             THEN IF "setItem" \in faults THEN Outcome(removed, FALSE)
                  ELSE Outcome([store EXCEPT ![key] =
                                   JsonStringify([EmptyObj EXCEPT !.lead = chatDetails.obj.lead])],
                               FALSE)
        ELSE Outcome(removed, FALSE)

----------------------------------------------------------------------------
(* localStorage helpers: the calls *)

NoCall == [op |-> "none", cf |-> "", chatId |-> "", threw |-> FALSE, tryFault |-> FALSE,
           oversize |-> FALSE, inHist |-> <<>>, before |-> NoItem, after |-> "none"]

NoRet == [threw |-> FALSE, value |-> EmptyObj]

\* the store starts empty and storage calls succeed
StInit ==
    /\ storage = [k \in Keys |-> NoItem]
    /\ storageFails = FALSE
    /\ stLast = NoCall
    /\ stRet = NoRet

\* any storage call may throw, and the store may hold text that is not JSON
\* (written by other code of the page)
StInitFault ==
    /\ storage \in [Keys -> {NoItem, Garbage}]
    /\ storageFails = TRUE
    /\ stLast = NoCall
    /\ stRet = NoRet

\* a call of setLocalStorageChatflow
Save ==
    /\ \E cf \in FlowsInUse, a \in SaveArgs,
          faults \in FaultChoices({"getItem", "setItem", "fallbackSetItem"}) :
        LET r == SaveRecord(storage, cf, a.chatId, a.obj, a.byteSize, faults)
        IN  /\ storage' = r.store
            /\ stLast' = [NoCall EXCEPT !.op = "save", !.cf = cf, !.chatId = a.chatId,
                             !.threw = r.threw,
                             !.tryFault = ("getItem" \in faults \/ "setItem" \in faults),
                             !.oversize = (a.byteSize > MAX_BYTES),
                             !.inHist = a.saveObj.chatHistory]
    /\ stRet' = NoRet
    /\ UNCHANGED <<storageFails, mdVars, rqVars, mkVars>>

\* a call of getLocalStorageChatflow; it remembers the call it follows when
\* that call was on the same chatflow
Get ==
    /\ \E cf \in FlowsInUse, faults \in FaultChoices({"getItem"}) :
        LET r == getLocalStorageChatflow(storage, cf, faults)
            follows == stLast.op \in {"save", "remove"} /\ stLast.cf = cf
        IN  /\ stRet' = r
            /\ stLast' = IF follows
                         THEN [stLast EXCEPT !.op = "get", !.after = stLast.op,
                                  !.threw = r.threw]
                         ELSE [NoCall EXCEPT !.op = "get", !.cf = cf, !.threw = r.threw]
    /\ UNCHANGED <<storage, storageFails, mdVars, rqVars, mkVars>>

\* a call of removeLocalStorageChatHistory
Remove ==
    /\ \E cf \in FlowsInUse, faults \in FaultChoices({"getItem", "removeItem", "setItem"}) :
        LET r == removeLocalStorageChatHistory(storage, cf, faults)
        IN  /\ storage' = r.store
            /\ stLast' = [NoCall EXCEPT !.op = "remove", !.cf = cf, !.threw = r.threw,
                             !.before = storage[KeyOf(cf)]]
    /\ stRet' = NoRet
    /\ UNCHANGED <<storageFails, mdVars, rqVars, mkVars>>

----------------------------------------------------------------------------
(* preprocessMarkdown: the call, line by line *)

\* representative lines: table rows, separator rows, empty rows, plain text
LinePool ==
    { <<>>,
      <<"|", "a", "|">>,
      <<"|", " ", "a", " ", "|", " ", "a", " ", "|">>,
      <<" ", "|", "a", "|", " ">>,
      <<"|", "-", "|">>,
      <<"|", ":", "-", "-", "|", "-", "-", ":", "|">>,
      <<"|", " ", "|">>,
      <<"|", "a">>,
      <<"a">>,
      <<"a", " ", "-", " ", "a">>,
      <<"|", " ", "a", "-", "a", " ", "|">> }

RECURSIVE LineSeqsUpTo(_)
LineSeqsUpTo(n) ==
    IF n = 0 THEN {<<>>}
    ELSE LET shorter == LineSeqsUpTo(n - 1)
         IN  shorter \cup {Append(ls, l) : ls \in {t \in shorter : Len(t) = n - 1}, l \in LinePool}

\* the input texts: every short string, and every short document of pooled lines
Inputs ==
    StringsUpTo(MaxLen) \cup {Join(ls, <<NL>>) : ls \in LineSeqsUpTo(MaxLines)}

MdIdle ==
    /\ originalLines = <<>>
    /\ fixedLines = <<>>
    /\ i = 0
    /\ firstTableRowSeen = FALSE
    /\ sepCols = <<>>
    /\ synCols = <<>>

MdInit ==
    /\ input \in Inputs
    /\ text = input
    /\ mdpc = "call"
    /\ pass = 1
    /\ out1 = <<>>
    /\ result = <<>>
    /\ MdIdle

\* line 52-61: the fast path, or the split and the loop's initial state
MdStart ==
    /\ mdpc = "call"
    /\ IF ~Includes(text, "|")
       THEN /\ result' = text
            /\ mdpc' = "done"
            /\ originalLines' = <<>>
       ELSE /\ result' = result
            /\ mdpc' = "loop"
            /\ originalLines' = Split(text, NL)
    /\ fixedLines' = <<>>
    /\ i' = 0
    /\ firstTableRowSeen' = FALSE
    /\ sepCols' = <<>>
    /\ synCols' = <<>>
    /\ UNCHANGED <<text, input, pass, out1>>
    /\ UNCHANGED <<stVars, rqVars, mkVars>>

\* line 63-103: one iteration of the loop; String.prototype.repeat throws a
\* RangeError for a negative count
MdLine ==
    /\ mdpc = "loop"
    /\ i < Len(originalLines)
    /\ LET orig == originalLines[i + 1]
           atSep == AtSeparatorSite(orig)
           cols1 == SeparatorCols(orig)
           line == IF atSep /\ cols1 >= 1 THEN SeparatorRow(cols1) ELSE orig
           atSyn == /\ IsTableRow(line)
                    /\ ~firstTableRowSeen
                    /\ NextLineWantsSeparator(originalLines, i)
           cols2 == SynthCols(line)
       IN  IF Skipped(orig)
           THEN /\ i' = i + 1
                /\ UNCHANGED <<fixedLines, firstTableRowSeen, mdpc, sepCols, synCols>>
           ELSE /\ sepCols' = (IF atSep THEN <<cols1>> ELSE sepCols)
                /\ IF atSep /\ cols1 < 1
                   THEN /\ mdpc' = "threw"
                        /\ UNCHANGED <<fixedLines, firstTableRowSeen, i, synCols>>
                   ELSE /\ synCols' = (IF atSyn THEN <<cols2>> ELSE synCols)
                        /\ firstTableRowSeen' = SeenAfter(firstTableRowSeen, line)
                        /\ IF atSyn /\ cols2 < 1
                           THEN /\ mdpc' = "threw"
                                /\ fixedLines' = Append(fixedLines, line)
                                /\ i' = i
                           ELSE /\ mdpc' = mdpc
                                /\ fixedLines' =
                                      IF atSyn
                                      THEN fixedLines \o <<line, SeparatorRow(cols2)>>
                                      ELSE Append(fixedLines, line)
                                /\ i' = i + 1
    /\ UNCHANGED <<text, input, originalLines, pass, out1, result>>
    /\ UNCHANGED <<stVars, rqVars, mkVars>>

\* line 105: return fixedLines.join('\n')
MdReturn ==
    /\ mdpc = "loop"
    /\ i = Len(originalLines)
    /\ result' = Join(fixedLines, <<NL>>)
    /\ mdpc' = "done"
    /\ UNCHANGED <<text, input, originalLines, fixedLines, i, firstTableRowSeen,
                   pass, out1, sepCols, synCols>>
    /\ UNCHANGED <<stVars, rqVars, mkVars>>

\* the preprocessor is called again on its own output
MdAgain ==
    /\ mdpc = "done"
    /\ pass = 1
    /\ out1' = result
    /\ text' = result
    /\ pass' = 2
    /\ mdpc' = "call"
    /\ UNCHANGED <<input, originalLines, fixedLines, i, firstTableRowSeen, result,
                   sepCols, synCols>>
    /\ UNCHANGED <<stVars, rqVars, mkVars>>

MdNext == MdStart \/ MdLine \/ MdReturn \/ MdAgain

----------------------------------------------------------------------------
(* Properties of preprocessMarkdown *)

\* C8: preprocessMarkdown is idempotent: the call on the first call's output
\* returns (it does not throw) and returns that output unchanged.
C8_Idempotent ==
    pass = 2 => /\ mdpc # "threw"
                /\ mdpc = "done" => result = out1

\* C8 witness: the second call has returned, and the first call had dropped an
\* empty row and synthesized a separator.
C8_Witness ==
    /\ pass = 2
    /\ mdpc = "done"
    /\ out1 # input
    /\ input = <<"|", "a", "|", NL, "|", " ", "|", NL, "|", "-", "|">>
    /\ result = out1

\* C9 as stated: the output never has more lines than the input.
C9_NoMoreLines ==
    (pass = 1 /\ mdpc = "done") => LineCount(result) <= LineCount(input)

\* C9 amended: the output has at most one line more than the input (the one
\* separator synthesized after the first table row).
C9_AtMostOneMoreLine ==
    (pass = 1 /\ mdpc = "done") => LineCount(result) <= LineCount(input) + 1

\* C9 witness: a call that returned one line more than it was given.
C9_Witness ==
    /\ pass = 1
    /\ mdpc = "done"
    /\ LineCount(result) = LineCount(input) + 1

\* C10: at both sites that build a separator row the column count is at least
\* 1, so repeat never gets a negative count and the function never throws.
C10_ColsAtLeastOne ==
    /\ mdpc # "threw"
    /\ sepCols # <<>> => sepCols[1] >= 1
    /\ synCols # <<>> => synCols[1] >= 1

\* C10 witness: one call reached both sites, each with a column count.
C10_Witness ==
    /\ mdpc = "done"
    /\ sepCols # <<>>
    /\ synCols # <<>>
    /\ synCols[1] = 2

----------------------------------------------------------------------------
(* sendRequest *)

\* JavaScript values: a tagged record per kind of value
JNull == [t |-> "null"]
JString(str) == [t |-> "string", s |-> str]
JBlob == [t |-> "blob"]
\* an object; error: its "error" field, <<>> when it has none
JObject(error) == [t |-> "object", error |-> error]
JException(name) == [t |-> "exception", name |-> name]

\* value is truthy
Truthy(value) == value # JNull /\ value # JString("")

\* typeof value === 'object'
TypeofObject(value) == value.t \in {"null", "object", "blob"}

\* the arguments: a URL, or a descriptor; body "circular" is a body that
\* JSON.stringify rejects
RequestParams ==
    {[isString |-> TRUE, body |-> "none", type |-> "", onRequest |-> FALSE]}
    \cup {[isString |-> FALSE, body |-> b, type |-> t, onRequest |-> h] :
             b \in {"none", "plain", "circular"}, t \in {"", "blob"}, h \in BOOLEAN}

\* what fetch can resolve to
Responses ==
    [ok : BOOLEAN, contentType : {"none", "application/json", "text/plain"},
     statusText : {"", "Not Found"}]

\* what response.json() can resolve to
JsonBodies ==
    {JNull, JString(""), JString("oops"), JObject(<<>>), JObject(<<JString("bad input")>>),
     JObject(<<JString("")>>), JObject(<<JNull>>)}

\* what response.text() can resolve to
TextBodies == {JString(""), JString("oops")}

\* line 292-298: the decoder chosen, and what it can resolve to
Decoder(params, response) ==
    IF response.contentType = "application/json" THEN "json"
    ELSE IF ~params.isString /\ params.type = "blob" THEN "blob"
    ELSE "text"

DecodedBodies(decoder) ==
    CASE decoder = "json" -> JsonBodies
      [] decoder = "blob" -> {JBlob}
      [] decoder = "text" -> TextBodies

NoResult == [data |-> <<>>, error |-> <<>>]

\* line 311 and line 314
DataResult(value) == [data |-> <<value>>, error |-> <<>>]
ErrorResult(value) == [data |-> <<>>, error |-> <<value>>]

\* line 300-308: what the !response.ok branch throws; the in operator throws a
\* TypeError when its right operand is null
ErrorOfFailedResponse(data, statusText) ==
    IF TypeofObject(data)
    THEN IF data = JNull THEN JException("TypeError")
         ELSE IF data.t = "object" /\ data.error # <<>> THEN data.error[1]
         ELSE data
    ELSE IF Truthy(data) THEN data ELSE JString(statusText)

RqParked ==
    /\ rqParams = [isString |-> TRUE, body |-> "none", type |-> "", onRequest |-> FALSE]
    /\ rqPc = "idle"
    /\ rqResponse = [ok |-> TRUE, contentType |-> "none", statusText |-> ""]
    /\ rqData = JNull
    /\ rqPath = "none"
    /\ rqResult = NoResult

RqInit ==
    /\ rqParams \in RequestParams
    /\ rqPc = "start"
    /\ rqResponse = [ok |-> TRUE, contentType |-> "none", statusText |-> ""]
    /\ rqData = JNull
    /\ rqPath = "none"
    /\ rqResult = NoResult

\* line 266-286, up to the first await: JSON.stringify(params.body) may throw
RqBuild ==
    /\ rqPc = "start"
    /\ IF rqParams.body = "circular"
       THEN /\ rqPc' = "done"
            /\ rqPath' = "stringify threw"
            /\ rqResult' = ErrorResult(JException("TypeError"))
       ELSE /\ rqPc' = (IF ~rqParams.isString /\ rqParams.onRequest THEN "hook" ELSE "fetch")
            /\ UNCHANGED <<rqPath, rqResult>>
    /\ UNCHANGED <<rqParams, rqResponse, rqData, mdVars, stVars, mkVars>>

\* line 285: await params.onRequest(requestInfo) settles
RqHook ==
    /\ rqPc = "hook"
    /\ \E resolves \in BOOLEAN :
          IF resolves
          THEN /\ rqPc' = "fetch"
               /\ UNCHANGED <<rqPath, rqResult>>
          ELSE /\ rqPc' = "done"
               /\ rqPath' = "onRequest rejected"
               /\ rqResult' = ErrorResult(JException("HookError"))
    /\ UNCHANGED <<rqParams, rqResponse, rqData, mdVars, stVars, mkVars>>

\* line 288: await fetch(url, requestInfo) settles
RqFetch ==
    /\ rqPc = "fetch"
    /\ \E rejects \in BOOLEAN, response \in Responses :
          IF rejects
          THEN /\ rqPc' = "done"
               /\ rqPath' = "fetch rejected"
               /\ rqResult' = ErrorResult(JException("TypeError"))
               /\ UNCHANGED rqResponse
          ELSE /\ rqPc' = "decode"
               /\ rqResponse' = response
               /\ UNCHANGED <<rqPath, rqResult>>
    /\ UNCHANGED <<rqParams, rqData, mdVars, stVars, mkVars>>

\* line 290-298: await response.json() / blob() / text() settles
RqDecode ==
    /\ rqPc = "decode"
    /\ \E rejects \in BOOLEAN, body \in DecodedBodies(Decoder(rqParams, rqResponse)) :
          IF rejects
          THEN /\ rqPc' = "done"
               /\ rqPath' = "decode rejected"
               /\ rqResult' = ErrorResult(JException("SyntaxError"))
               /\ UNCHANGED rqData
          ELSE /\ rqPc' = "check"
               /\ rqData' = body
               /\ UNCHANGED <<rqPath, rqResult>>
    /\ UNCHANGED <<rqParams, rqResponse, mdVars, stVars, mkVars>>

\* line 299-315: the status check, the return and the catch
RqReturn ==
    /\ rqPc = "check"
    /\ rqPc' = "done"
    /\ rqPath' = "decoded"
    /\ rqResult' = IF ~rqResponse.ok
                   THEN ErrorResult(ErrorOfFailedResponse(rqData, rqResponse.statusText))
                   ELSE DataResult(rqData)
    /\ UNCHANGED <<rqParams, rqResponse, rqData, mdVars, stVars, mkVars>>

RqNext == RqBuild \/ RqHook \/ RqFetch \/ RqDecode \/ RqReturn

----------------------------------------------------------------------------
(* MarkdownParser *)

\* An HTML string is the sequence of its nodes: a text node, or an element
\* with its tag and attribute names.  A markdown source is the sequence of its
\* fragments: text, white space, or a raw HTML element written in it.
TextNode == [tag |-> "#text", attrs |-> {}]
SpaceNode == [tag |-> "#space", attrs |-> {}]
Element(tag, attrs) == [tag |-> tag, attrs |-> attrs]

\* line 173-203
ALLOWED_TAGS ==
    {"p", "br", "strong", "em", "u", "s", "code", "pre", "a", "ul", "ol", "li",
     "blockquote", "h1", "h2", "h3", "h4", "h5", "h6", "table", "thead", "tbody",
     "tr", "th", "td", "hr", "img", "span", "div"}

\* line 204
ALLOWED_ATTR == {"href", "target", "rel", "class", "src", "alt", "title"}

\* line 206
ADD_ATTR == {"target"}

\* the fragments sources are made of
Fragments ==
    {TextNode, SpaceNode, Element("script", {}), Element("a", {"href", "onclick"})}

RECURSIVE SeqsUpTo(_, _)
SeqsUpTo(S, n) ==
    IF n = 0 THEN {<<>>}
    ELSE LET shorter == SeqsUpTo(S, n - 1)
         IN  shorter \cup {Append(q, x) : q \in {t \in shorter : Len(t) = n - 1}, x \in S}

Sources == SeqsUpTo(Fragments, MaxFrags)

\* the arguments of parse: null, undefined, a value that is not a string (with
\* what String(value) gives), a string
ParseInputs ==
    {[kind |-> "null", str |-> <<>>], [kind |-> "undefined", str |-> <<>>]}
    \cup {[kind |-> "nonstring", str |-> src] : src \in Sources}
    \cup {[kind |-> "string", str |-> src] : src \in Sources}

\* the nodes an HTML string returned by markdown-it is made of; markdown-it is
\* library code and nothing is assumed of what it returns
RenderedNodes ==
    {TextNode} \cup {Element(tag, attrs) : tag \in {"a", "script"},
                                            attrs \in SUBSET {"href", "onclick"}}

\* line 168: this.md.render(preprocessedMarkdown), when it returns
RenderOutputs == SeqsUpTo(RenderedNodes, MaxNodes)

\* line 172-207: DOMPurify.sanitize with the configured allow-lists
Sanitize(html) ==
    LET kept == SelectSeq(html, LAMBDA node : node.tag = "#text" \/ node.tag \in ALLOWED_TAGS)
    IN  [k \in 1..Len(kept) |->
            Element(kept[k].tag, kept[k].attrs \cap (ALLOWED_ATTR \cup ADD_ATTR))]

\* line 218-222: the text as the content of a div, serialized: markup becomes text
escapeHtml(str) == [k \in 1..Len(str) |-> TextNode]

\* line 160: markdown.trim() === ''
IsBlank(str) == \A k \in 1..Len(str) : str[k] = SpaceNode

\* a slip that sanitizes only when asked to
SanitizeEnabled_whenAsked(option) == option = "true"

\* line 119: options.sanitize !== false
SanitizeEnabled(option) == option # "false"

\* line 226-242: the parser parseMarkdown picks, by its sanitize option
ParserOfHelper(renderHTML) == IF renderHTML = "true" THEN "false" ELSE "true"

\* how a parser is obtained: new MarkdownParser({sanitize}), or parseMarkdown
\* with options.renderHTML
ParserCalls ==
    [via : {"new MarkdownParser", "parseMarkdown"}, option : {"undefined", "true", "false"}]

\* whether the parser of a call sanitizes
Sanitizes(call) ==
    IF call.via = "parseMarkdown" THEN SanitizeEnabled(ParserOfHelper(call.option))
    ELSE SanitizeEnabled(call.option)

\* line 148-216: what parse can return; the render and the sanitizer may throw,
\* and the catch returns the escaped source
ParseOutputs(sanitize, markdown) ==
    IF markdown.kind \in {"null", "undefined"} THEN {<<>>}
    ELSE IF markdown.kind # "string" THEN {escapeHtml(markdown.str)}
    ELSE IF IsBlank(markdown.str) THEN {<<>>}
    ELSE {IF sanitize THEN Sanitize(html) ELSE html : html \in RenderOutputs}
         \cup {escapeHtml(markdown.str)}

MkParked ==
    /\ mkCall = [via |-> "parseMarkdown", option |-> "undefined"]
    /\ mkInput = [kind |-> "null", str |-> <<>>]
    /\ mkPc = "idle"
    /\ mkOut = <<>>

MkInit ==
    /\ mkCall \in ParserCalls
    /\ mkInput \in ParseInputs
    /\ mkPc = "call"
    /\ mkOut = <<>>

\* a call of parse
MkParse ==
    /\ mkPc = "call"
    /\ mkOut' \in ParseOutputs(Sanitizes(mkCall), mkInput)
    /\ mkPc' = "done"
    /\ UNCHANGED <<mkCall, mkInput, mdVars, stVars, rqVars>>

MkNext == MkParse

----------------------------------------------------------------------------
(* The specifications *)

MdParked ==
    /\ input = <<>>
    /\ text = <<>>
    /\ mdpc = "idle"
    /\ pass = 0
    /\ out1 = <<>>
    /\ result = <<>>
    /\ MdIdle

StNext == Save \/ Get \/ Remove

Init == StInit /\ MdParked /\ RqParked /\ MkParked

\* the localStorage helpers, from an empty store, storage calls succeeding
Spec == Init /\ [][StNext]_vars

InitFault == StInitFault /\ MdParked /\ RqParked /\ MkParked

\* the localStorage helpers where storage calls can throw
SpecFault == InitFault /\ [][StNext]_vars

InitMd == MdInit /\ StInit /\ RqParked /\ MkParked

\* preprocessMarkdown
SpecMd == InitMd /\ [][MdNext]_vars

InitReq == RqInit /\ StInit /\ MdParked /\ MkParked

\* sendRequest
SpecReq == InitReq /\ [][RqNext]_vars

\* sendRequest, where every pending promise settles
SpecReqFair == SpecReq /\ WF_vars(RqNext)

InitParse == MkInit /\ StInit /\ MdParked /\ RqParked

\* MarkdownParser.parse
SpecParse == InitParse /\ [][MkNext]_vars

----------------------------------------------------------------------------
(* Properties of the localStorage helpers *)

\* C2: a call of setLocalStorageChatflow whose record (chatId merged in,
\* history truncated and stripped) serializes to more than 2000 bytes leaves
\* the value under every key as it was.
C2_OversizeWritesNothing ==
    [][(stLast'.op = "save" /\ stLast'.oversize) => storage' = storage]_vars

\* C2 witness: an oversized save was made while both keys held a record.
C2_Witness ==
    /\ stLast.op = "save"
    /\ stLast.oversize
    /\ \A k \in Keys : storage[k] # NoItem

\* C3: starting from an empty store, every stored JSON value serializes to at
\* most 2000 bytes, also after a save that merges over an existing record.
C3_StoredWithinBudget ==
    \A k \in Keys : storage[k].kind = "json" => ObjBytes(storage[k].obj) <= 2000

\* what C4 expects of a saved history: its last min(n, 30) entries, in order,
\* each without the three heavy fields
C4_Expected(h) ==
    LET n == Len(h)
        m == IF n < 30 THEN n ELSE 30
    IN  [k \in 1..m |->
            [f \in DOMAIN h[n - m + k] \ {"agentReasoning", "sourceDocuments", "artifacts"} |->
                h[n - m + k][f]]]

\* C4 as stated: after a save with a chatHistory array, a get for the same
\* chatflow returns exactly the expected history.
C4_HistoryAfterSave ==
    (stLast.op = "get" /\ stLast.after = "save" /\ stLast.inHist # <<>>)
        => /\ ~stRet.threw
           /\ stRet.value.chatHistory = <<C4_Expected(stLast.inHist[1])>>

\* C4 amended: the same, for a save whose record was within the byte budget
\* (an oversized record is not saved at all).
C4_HistoryAfterSaveWithinBudget ==
    (stLast.op = "get" /\ stLast.after = "save" /\ stLast.inHist # <<>> /\ ~stLast.oversize)
        => /\ ~stRet.threw
           /\ stRet.value.chatHistory = <<C4_Expected(stLast.inHist[1])>>

\* C4 witness: a history of MaxHist entries with heavy fields was saved and the
\* get returned its last 30 entries, stripped.
C4_Witness ==
    /\ stLast.op = "get"
    /\ stLast.after = "save"
    /\ stLast.inHist # <<>>
    /\ Len(stLast.inHist[1]) = MaxHist
    /\ stRet.value.chatHistory # <<>>
    /\ Len(stRet.value.chatHistory[1]) = 30
    /\ stRet.value.chatHistory[1][1] = [timestamp |-> MaxHist - 29, text |-> "hi"]
    /\ stRet.value.chatHistory[1][30] = [timestamp |-> MaxHist, text |-> "hi"]

\* C5: when the stored record has a lead, removeLocalStorageChatHistory
\* followed by getLocalStorageChatflow returns an object whose only field is
\* that lead.
C5_LeadSurvivesClear ==
    (/\ stLast.op = "get"
     /\ stLast.after = "remove"
     /\ stLast.before.kind = "json"
     /\ stLast.before.obj.lead # <<>>)
        => stRet = [threw |-> FALSE,
                    value |-> [chatId |-> <<>>, chatHistory |-> <<>>,
                               lead |-> stLast.before.obj.lead]]

\* C5 witness: the record that was cleared held a chatId, a history and a lead.
C5_Witness ==
    /\ stLast.op = "get"
    /\ stLast.after = "remove"
    /\ stLast.before.kind = "json"
    /\ stLast.before.obj.lead # <<>>
    /\ stLast.before.obj.chatId # <<>>
    /\ stLast.before.obj.chatHistory # <<>>
    /\ stRet.value.lead = stLast.before.obj.lead

\* C6: none of the three helpers lets an exception escape, whatever is stored
\* and whichever storage call fails; a get of undecodable text returns {}; a
\* save that met a storage failure leaves the minimal record {chatId}.
C6_NothingEscapes ==
    /\ ~stLast.threw
    /\ (stLast.op = "save" /\ stLast.tryFault /\ ~stLast.oversize)
          => storage[KeyOf(stLast.cf)] = JsonStringify([chatId |-> <<stLast.chatId>>,
                                                        chatHistory |-> <<>>, lead |-> <<>>])
    /\ (stLast.op = "get" /\ storage[KeyOf(stLast.cf)] = Garbage)
          => stRet.value = [chatId |-> <<>>, chatHistory |-> <<>>, lead |-> <<>>]

----------------------------------------------------------------------------
(* Properties of sendRequest *)

\* what C7 says a failed response's error is: the body's error field, else
\* the body, else the status text
C7_ExpectedError(data, statusText) ==
    IF data.t = "object" /\ data.error # <<>> THEN data.error[1]
    ELSE IF Truthy(data) THEN data
    ELSE JString(statusText)

\* C7: the call resolves to an object with exactly one of data and error; a
\* failed hook, fetch or decode and a non-2xx response give {error}, the error
\* of a non-2xx response being its body's error field, else the body, else the
\* status text; only a 2xx response whose body decodes gives {data}.
C7_DataOrError ==
    rqPc = "done" =>
        /\ (rqResult.data = <<>>) # (rqResult.error = <<>>)
        /\ rqPath # "decoded" => rqResult.data = <<>>
        /\ (rqPath = "decoded" /\ ~rqResponse.ok) =>
              rqResult = ErrorResult(C7_ExpectedError(rqData, rqResponse.statusText))
        /\ (rqPath = "decoded" /\ rqResponse.ok) => rqResult = DataResult(rqData)

\* the part of C7 that holds of every call: exactly one of data and error, and
\* data only for a 2xx response whose body decoded
RqOneOfDataOrError ==
    rqPc = "done" =>
        /\ (rqResult.data = <<>>) # (rqResult.error = <<>>)
        /\ rqResult.data # <<>> <=> (rqPath = "decoded" /\ rqResponse.ok)

\* under SpecReqFair every call resolves
RqResolves == <>(rqPc = "done")

----------------------------------------------------------------------------
(* Properties of MarkdownParser.parse *)

\* C1: a parser with sanitize enabled (new MarkdownParser with sanitize true or
\* left out; parseMarkdown unless options.renderHTML is truthy) returns HTML
\* with no script element and no on* attribute, for every input.
C1_NoScriptNoHandlers ==
    (/\ mkPc = "done"
     /\ \/ mkCall.via = "new MarkdownParser" /\ mkCall.option \in {"undefined", "true"}
        \/ mkCall.via = "parseMarkdown" /\ mkCall.option \in {"undefined", "false"})
        => \A k \in 1..Len(mkOut) :
              /\ mkOut[k].tag # "script"
              /\ mkOut[k].attrs \cap {"onclick"} = {}

\* C1 witness: a default parser was given a source with a raw script element,
\* and returned an anchor that went through the sanitizer.
C1_Witness ==
    /\ mkPc = "done"
    /\ mkCall = [via |-> "new MarkdownParser", option |-> "undefined"]
    /\ mkInput = [kind |-> "string", str |-> <<Element("script", {})>>]
    /\ mkOut = <<Element("a", {"href"})>>

====
